---- MODULE Spec2Model ----
(***************************************************************************)
(* A model of instant-mini-reddit: posts, comments and votes kept in an    *)
(* InstantDB store that every client replicates.  The entity variant       *)
(* (votes are first-class linked entities, handleVote) is modelled with    *)
(* its transport: a client applies each db.transact batch to its own view  *)
(* at once and the shared store applies the batches in the order they      *)
(* arrive.  The pure helpers of the views (getVoteCount, getUserVote,      *)
(* getVotes, the comment forest of PostDetail and CommentThread) are       *)
(* operators, exercised on their own by a specification that draws their   *)
(* inputs from bounded sets.                                               *)
(***************************************************************************)
EXTENDS Integers, Sequences, FiniteSets, TLC

\* ------------------------------------------------------------------ bounds

MaxIds == 4
MaxPending == 1
MaxTrace == 3
MaxLen == 3
MaxRunning == 1
MaxItems == 2

\* ------------------------------------------------------------ vocabulary

Replicas == {"r1", "r2"}
Users == {"a1", "u1"}
VoteTypes == {"up", "down"}

\* undefined / null: an attribute or a link that is not set
Absent == "absent"
\* a parentCommentId string that names no comment
MissingId == "missing-id"

\* The names id() hands out, by entity type.  id() returns a fresh UUID: the
\* n-th call for a type yields the n-th name of its pool.
PostPool == <<"p1", "p2", "p3", "p4", "p5", "p6">>
CommentPool == <<"c1", "c2", "c3", "c4", "c5", "c6">>
VotePool == <<"v1", "v2", "v3", "v4", "v5", "v6">>

\* ---------------------------------------------------------------- schema

\* An array attribute of the array variant (upvotes, downvotes): the user ids
\* it lists, or not set at all.
ArrayOf(items) == [defined |-> TRUE, items |-> items]
Undefined == [defined |-> FALSE, items |-> <<>>]

\* An entity with no attribute and no link set (instant.schema.ts; the array
\* variant writes upvotes and downvotes on posts and comments besides, and the
\* shared store keeps serverCreatedAt for every post).
\* a number attribute that was never written
NoTime == 0

BlankPost ==
    [id |-> Absent, timestamp |-> NoTime, serverCreatedAt |-> NoTime,
     upvotes |-> Undefined, downvotes |-> Undefined]
BlankComment ==
    [id |-> Absent, timestamp |-> NoTime, parentCommentId |-> Absent, post |-> Absent,
     upvotes |-> Undefined, downvotes |-> Undefined]
BlankVote ==
    [id |-> Absent, userId |-> Absent, voteType |-> Absent,
     post |-> Absent, comment |-> Absent]

Blank(etype) ==
    CASE etype = "posts" -> BlankPost
      [] etype = "comments" -> BlankComment
      [] etype = "votes" -> BlankVote

EmptyStore == [posts |-> {}, comments |-> {}, votes |-> {}]

\* ------------------------------------------------------------ transaction

\* The steps a db.tx chain builds.  update (and create, on a fresh id) writes
\* the given attributes of the entity, making the entity when the store holds
\* none of that id; link sets one link attribute; delete removes the entity.
UpdateOp(etype, eid, attrs) ==
    [op |-> "update", etype |-> etype, id |-> eid, attrs |-> attrs]
LinkOp(etype, eid, label, target) ==
    [op |-> "update", etype |-> etype, id |-> eid, attrs |-> (label :> target)]
DeleteOp(etype, eid) ==
    [op |-> "delete", etype |-> etype, id |-> eid, attrs |-> <<>>]

Has(ents, eid) == \E e \in ents : e.id = eid
Get(ents, eid) == CHOOSE e \in ents : e.id = eid

Upsert(ents, blank, eid, attrs) ==
    LET old == IF Has(ents, eid) THEN Get(ents, eid) ELSE [blank EXCEPT !.id = eid]
        new == [f \in DOMAIN old |-> IF f \in DOMAIN attrs THEN attrs[f] ELSE old[f]]
    IN  (ents \ {old}) \cup {new}

ApplyOp(s, o) ==
    IF o.op = "delete"
    THEN [s EXCEPT ![o.etype] = {e \in @ : e.id # o.id}]
    ELSE [s EXCEPT ![o.etype] = Upsert(@, Blank(o.etype), o.id, o.attrs)]

\* One db.transact batch: all of its steps, as one change of the store.
RECURSIVE ApplyTx(_, _)
ApplyTx(s, tx) ==
    IF tx = <<>> THEN s ELSE ApplyTx(ApplyOp(s, Head(tx)), Tail(tx))

RECURSIVE ApplyAll(_, _)
ApplyAll(s, txs) ==
    IF txs = <<>> THEN s ELSE ApplyAll(ApplyTx(s, Head(txs)), Tail(txs))

\* ---------------------------------------------------------------- queries

\* Every order in which a query may list the entities of a set.
Orderings(S) ==
    {f \in [1..Cardinality(S) -> S] : \A i, j \in DOMAIN f : i # j => f[i] # f[j]}

Range(f) == {f[i] : i \in DOMAIN f}

\* A query that lists every comment under every post
CommentsOf_Unscoped(s, postId) == s.comments

\* post.comments, post.votes, comment.votes of the nested queries
CommentsOf(s, postId) == {c \in s.comments : c.post = postId}
PostVotes(s, postId) == {v \in s.votes : v.post = postId}
CommentVotes(s, commentId) == {v \in s.votes : v.comment = commentId}

\* The lists a query may hand back for posts: {order: {<attr>: 'desc'}}.  A
\* post on which the attribute is not set yet may come anywhere.
PostsOrderedBy(s, attr) ==
    {l \in Orderings(s.posts) :
        \A i, j \in DOMAIN l :
            (i < j /\ l[i][attr] # NoTime /\ l[j][attr] # NoTime)
                => l[i][attr] >= l[j][attr]}

\* App's query of the first entity variant: order: {timestamp: 'desc'}
PostsByTimestamp(s) == PostsOrderedBy(s, "timestamp")

\* App's query of the second entity variant and of the array variant:
\* order: {serverCreatedAt: 'desc'}
PostsByServerCreatedAt(s) == PostsOrderedBy(s, "serverCreatedAt")

\* Every post list some variant's App is handed on a store
PostLists(s) == PostsByTimestamp(s) \cup PostsByServerCreatedAt(s)

\* ------------------------------------------------------- pure view helpers

NoVote == BlankVote

\* A score that counts voters, not votes
getVoteCount_PerVoter(votes) ==
    LET upvoters == {votes[i].userId : i \in {j \in DOMAIN votes : votes[j].voteType = "up"}}
        downvoters ==
            {votes[i].userId : i \in {j \in DOMAIN votes : votes[j].voteType = "down"}}
    IN  Cardinality(upvoters) - Cardinality(downvoters)

getVoteCount(votes) ==
    LET upvotes == Len(SelectSeq(votes, LAMBDA v : v.voteType = "up"))
        downvotes == Len(SelectSeq(votes, LAMBDA v : v.voteType = "down"))
    IN  upvotes - downvotes

\* A lookup that compares the vote's id with the user id
getUserVote_ById(votes, userId) ==
    LET mine == SelectSeq(votes, LAMBDA v : v.id = userId)
    IN  IF mine = <<>> THEN NoVote ELSE Head(mine)

\* votes.find(v => v.userId === userId) || null
getUserVote(votes, userId) ==
    LET mine == SelectSeq(votes, LAMBDA v : v.userId = userId)
    IN  IF mine = <<>> THEN NoVote ELSE Head(mine)

\* (item.upvotes as string[]) || []
OrEmpty(attr) == IF attr.defined THEN attr.items ELSE <<>>

\* The score of the array variant (page.tsx)
getVotes(item) ==
    LET upvotes == OrEmpty(item.upvotes)
        downvotes == OrEmpty(item.downvotes)
    IN  Len(upvotes) - Len(downvotes)

\* PostDetail: (post.comments || []).filter(c => !c.parentCommentId)
topLevelComments(comments) ==
    SelectSeq(comments, LAMBDA c : c.parentCommentId = Absent)

\* CommentThread: allComments.filter(c => c.parentCommentId === comment.id)
replies(comment, allComments) ==
    SelectSeq(allComments, LAMBDA c : c.parentCommentId = comment.id)

\* What CommentThread shows for one root: the root, then its replies, flat.
CommentThread(comment, allComments) == <<comment>> \o replies(comment, allComments)

RECURSIVE Threads(_, _)
Threads(roots, allComments) ==
    IF roots = <<>> THEN <<>>
    ELSE CommentThread(Head(roots), allComments) \o Threads(Tail(roots), allComments)

\* Every comment PostDetail shows for a post, in the order shown.
PostDetail(comments) == Threads(topLevelComments(comments), comments)

\* What db.useQuery hands to a view: still loading, failed with a message, or
\* the posts found.
Loading == [isLoading |-> TRUE, error |-> Absent, data |-> Absent]
Failed(message) == [isLoading |-> FALSE, error |-> message, data |-> Absent]
Data(posts) == [isLoading |-> FALSE, error |-> Absent, data |-> posts]

Nothing == [shows |-> "nothing"]

\* App: if (isLoading) return null; if (error) return Error: message; else
\* the list of the posts
App(query) ==
    IF query.isLoading THEN Nothing
    ELSE IF query.error # Absent THEN [shows |-> "error", message |-> query.error]
    ELSE [shows |-> "posts", posts |-> IF query.data = Absent THEN <<>> ELSE query.data]

\* PostDetail reads data alone: post = data?.posts?.[0]; if (!post) return null
PostDetailOf(query) ==
    LET post == IF query.data = Absent \/ query.data = <<>> THEN BlankPost
                ELSE Head(query.data)
    IN  IF post.id = Absent THEN Nothing ELSE [shows |-> "post", post |-> post]

\* What an operation hands back to its caller.  createComment, handleVote,
\* handlePostVote and handleCommentVote have no return value and no throw.
Returned == [kind |-> "returned", error |-> Absent]

\* The operations that end in db.transact.  None of them awaits the promise
\* db.transact returns or catches its rejection: whether the batch failed or
\* not, the caller gets the same.
Operations ==
    {"createPost", "createComment", "handleVote", "handlePostVote", "handleCommentVote"}
ReportOf(op, transactFailed) == Returned

\* ------------------------------------------------------------------ state

VARIABLES
    server,     \* the shared store: every batch that has reached it, applied
    pending,    \* per replica, its batches that have not reached it yet
    nid,        \* per entity type, how many ids id() has handed out
    lastCall,   \* the arguments of the latest handleVote call and its replica
    trace,      \* the handleVote calls made so far, oldest first
    auto,       \* per (user, target), the state of the vote automaton
    pin,        \* the input handed to a pure helper
    pout,       \* what the helper returned for it
    running,    \* the vote handlers of the array variant awaiting queryOnce
    username    \* per replica, the text of App's username field

vars == <<server, pending, nid, lastCall, trace, auto, pin, pout, running, username>>

\* What a replica's queries read: the shared store with the replica's own
\* pending batches applied on top (optimistic).
View(r) == ApplyAll(server, pending[r])

Converged == \A r \in Replicas : pending[r] = <<>>

NoCall ==
    [replica |-> Absent, targetId |-> Absent, userId |-> Absent, voteType |-> Absent,
     targetType |-> Absent, existingVote |-> NoVote]
TargetIds == Range(PostPool) \cup Range(CommentPool)

\* The vote automaton of a (user, target) pair: no-vote, upvoted, downvoted.
\* Casting the direction already held retracts the vote; any other cast
\* leaves the pair voted in the direction cast.
Transition(state, voteType) ==
    CASE state = "no-vote" /\ voteType = "up" -> "upvoted"
      [] state = "no-vote" /\ voteType = "down" -> "downvoted"
      [] state = "upvoted" /\ voteType = "up" -> "no-vote"
      [] state = "upvoted" /\ voteType = "down" -> "downvoted"
      [] state = "downvoted" /\ voteType = "down" -> "no-vote"
      [] state = "downvoted" /\ voteType = "up" -> "upvoted"

NoInput == [kind |-> Absent]
NoOutput == [kind |-> Absent]

Init ==
    /\ server = EmptyStore
    /\ pending = [r \in Replicas |-> <<>>]
    /\ nid = [posts |-> 0, comments |-> 0, votes |-> 0]
    /\ lastCall = NoCall
    /\ trace = <<>>
    /\ auto = [k \in Users \X TargetIds |-> "no-vote"]
    /\ pin = NoInput
    /\ pout = NoOutput
    /\ running = <<>>
    /\ username = [r \in Replicas |-> ""]

\* A transact that hands every step of the chain over as a batch of its own
Transact_StepByStep(r, tx) ==
    pending' = [pending EXCEPT ![r] = @ \o [i \in DOMAIN tx |-> <<tx[i]>>]]

\* db.transact(tx) on replica r
Transact(r, tx) == pending' = [pending EXCEPT ![r] = Append(@, tx)]

\* id() may still be called: the model hands out MaxIds ids at most
IdsLeft == nid.posts + nid.comments + nid.votes < MaxIds

\* id(): the next unused name of the entity type
freshId(etype) ==
    CASE etype = "posts" -> PostPool[nid.posts + 1]
      [] etype = "comments" -> CommentPool[nid.comments + 1]
      [] etype = "votes" -> VotePool[nid.votes + 1]

\* ------------------------------------------------------------- operations

\* Date.now(): time passes with every id() call, one tick each
now == nid.posts + nid.comments + nid.votes + 1

createPost ==
    << UpdateOp("posts", freshId("posts"), [timestamp |-> now]) >>

\* A reply that stores its own id as its parent
createComment_SelfParent(postId, parentCommentId) ==
    LET commentId == freshId("comments")
    IN  << UpdateOp("comments", commentId,
                    IF parentCommentId # Absent
                    THEN [timestamp |-> now, parentCommentId |-> commentId]
                    ELSE [timestamp |-> now]),
           LinkOp("comments", commentId, "post", postId) >>

createComment(postId, parentCommentId) ==
    LET commentId == freshId("comments")
    IN  << UpdateOp("comments", commentId,
                    IF parentCommentId # Absent
                    THEN [timestamp |-> now, parentCommentId |-> parentCommentId]
                    ELSE [timestamp |-> now]),
           LinkOp("comments", commentId, "post", postId) >>

\* A handleVote whose same-direction branch rewrites the vote and keeps it
handleVote_NoRetract(targetId, userId, voteType, targetType, existingVote) ==
    IF existingVote.id # Absent
    THEN << UpdateOp("votes", existingVote.id, [voteType |-> voteType]) >>
    ELSE LET voteId == freshId("votes")
             linkKey == IF targetType = "post" THEN "post" ELSE "comment"
         IN  << UpdateOp("votes", voteId, [userId |-> userId, voteType |-> voteType]),
                LinkOp("votes", voteId, linkKey, targetId) >>

\* A handleVote that switches direction by deleting the vote and making another
handleVote_Recreate(targetId, userId, voteType, targetType, existingVote) ==
    LET voteId == freshId("votes")
        linkKey == IF targetType = "post" THEN "post" ELSE "comment"
        create == << UpdateOp("votes", voteId, [userId |-> userId, voteType |-> voteType]),
                     LinkOp("votes", voteId, linkKey, targetId) >>
    IN  IF existingVote.id # Absent
        THEN IF existingVote.voteType = voteType
             THEN << DeleteOp("votes", existingVote.id) >>
             ELSE << DeleteOp("votes", existingVote.id) >> \o create
        ELSE create

handleVote(targetId, userId, voteType, targetType, existingVote) ==
    IF existingVote.id # Absent
    THEN IF existingVote.voteType = voteType
         THEN << DeleteOp("votes", existingVote.id) >>
         ELSE << UpdateOp("votes", existingVote.id, [voteType |-> voteType]) >>
    ELSE LET voteId == freshId("votes")
             linkKey == IF targetType = "post" THEN "post" ELSE "comment"
         IN  << UpdateOp("votes", voteId, [userId |-> userId, voteType |-> voteType]),
                LinkOp("votes", voteId, linkKey, targetId) >>

\* ---------------------------------------------- operations, array variant

includes(arr, x) == \E i \in DOMAIN arr : arr[i] = x

\* getUserVote of the array variant (page.tsx): 'up' | 'down' | null for the
\* user, from the arrays of the item
getUserVoteOfItem(item, userId) ==
    LET upvotes == OrEmpty(item.upvotes)
        downvotes == OrEmpty(item.downvotes)
    IN  IF includes(upvotes, userId) THEN "up"
        ELSE IF includes(downvotes, userId) THEN "down"
        ELSE Absent

\* db.queryOnce({ etype: { $: { where: { id } } } }), then data?.etype?.[0]: the
\* entity of that id in the store read, or none
queryOnce(s, etype, eid) == IF Has(s[etype], eid) THEN Get(s[etype], eid) ELSE Blank(etype)

\* NewPostForm.handleSubmit (page.tsx)
NewPostForm_handleSubmit ==
    << UpdateOp("posts", freshId("posts"),
                [timestamp |-> now,
                 upvotes |-> ArrayOf(<<>>), downvotes |-> ArrayOf(<<>>)]) >>

\* NewCommentForm.handleSubmit (page.tsx)
NewCommentForm_handleSubmit(postId, parentCommentId) ==
    LET commentId == freshId("comments")
        arrays == [timestamp |-> now,
                   upvotes |-> ArrayOf(<<>>), downvotes |-> ArrayOf(<<>>)]
    IN  << UpdateOp("comments", commentId,
                    IF parentCommentId # Absent
                    THEN arrays @@ [parentCommentId |-> parentCommentId]
                    ELSE arrays),
           LinkOp("comments", commentId, "post", postId) >>

\* A handlePostVote that adds the user to the array clicked without taking the
\* user out of the arrays first
handlePostVote_NoFilter(post, postId, userId, type) ==
    IF post.id = Absent THEN <<>>
    ELSE LET upvotes0 == OrEmpty(post.upvotes)
             downvotes0 == OrEmpty(post.downvotes)
             upvotes == IF type = "up" /\ ~includes(upvotes0, userId)
                        THEN Append(upvotes0, userId) ELSE upvotes0
             downvotes == IF type = "down" /\ ~includes(downvotes0, userId)
                          THEN Append(downvotes0, userId) ELSE downvotes0
         IN  << UpdateOp("posts", postId,
                         [upvotes |-> ArrayOf(upvotes), downvotes |-> ArrayOf(downvotes)]) >>

\* handlePostVote after its await: post is what queryOnce returned.  The batch
\* it hands to db.transact, or no batch when it returns early.
handlePostVote(post, postId, userId, type) ==
    IF post.id = Absent THEN <<>>
    ELSE LET upvotes0 == OrEmpty(post.upvotes)
             downvotes0 == OrEmpty(post.downvotes)
             wasUpvoted == includes(upvotes0, userId)
             wasDownvoted == includes(downvotes0, userId)
             upvotes1 == SelectSeq(upvotes0, LAMBDA x : x # userId)
             downvotes1 == SelectSeq(downvotes0, LAMBDA x : x # userId)
             upvotes == IF type = "up" /\ ~wasUpvoted
                        THEN Append(upvotes1, userId) ELSE upvotes1
             downvotes == IF ~(type = "up" /\ ~wasUpvoted) /\ type = "down" /\ ~wasDownvoted
                          THEN Append(downvotes1, userId) ELSE downvotes1
         IN  << UpdateOp("posts", postId,
                         [upvotes |-> ArrayOf(upvotes), downvotes |-> ArrayOf(downvotes)]) >>

\* A handleCommentVote that never takes a vote back: the arrow clicked is the
\* vote, clicked before or not
handleCommentVote_NoToggle(comment, commentId, userId, type) ==
    IF comment.id = Absent THEN <<>>
    ELSE LET upvotes1 == SelectSeq(OrEmpty(comment.upvotes), LAMBDA x : x # userId)
             downvotes1 == SelectSeq(OrEmpty(comment.downvotes), LAMBDA x : x # userId)
             upvotes == IF type = "up" THEN Append(upvotes1, userId) ELSE upvotes1
             downvotes == IF type = "down" THEN Append(downvotes1, userId) ELSE downvotes1
         IN  << UpdateOp("comments", commentId,
                         [upvotes |-> ArrayOf(upvotes), downvotes |-> ArrayOf(downvotes)]) >>

\* handleCommentVote after its await: comment is what queryOnce returned.
handleCommentVote(comment, commentId, userId, type) ==
    IF comment.id = Absent THEN <<>>
    ELSE LET upvotes0 == OrEmpty(comment.upvotes)
             downvotes0 == OrEmpty(comment.downvotes)
             wasUpvoted == includes(upvotes0, userId)
             wasDownvoted == includes(downvotes0, userId)
             upvotes1 == SelectSeq(upvotes0, LAMBDA x : x # userId)
             downvotes1 == SelectSeq(downvotes0, LAMBDA x : x # userId)
             upvotes == IF type = "up" /\ ~wasUpvoted
                        THEN Append(upvotes1, userId) ELSE upvotes1
             downvotes == IF ~(type = "up" /\ ~wasUpvoted) /\ type = "down" /\ ~wasDownvoted
                          THEN Append(downvotes1, userId) ELSE downvotes1
         IN  << UpdateOp("comments", commentId,
                         [upvotes |-> ArrayOf(upvotes), downvotes |-> ArrayOf(downvotes)]) >>

\* ------------------------------------------------------------ what is shown

\* The comments of a post that PostDetail shows, whatever order the query
\* lists them in.
ShownComments(s, postId) ==
    UNION {Range(PostDetail(list)) : list \in Orderings(CommentsOf(s, postId))}

\* The props of the reply form CommentThread opens under a root comment.
ReplyFormProps(postId, comment) == [postId |-> postId, parentCommentId |-> comment.id]

\* Forms that offer a reply under every comment of the post, replies included
CommentForms_ReplyToAny(s) ==
    UNION {
        {[postId |-> p.id, parentCommentId |-> Absent]}
        \cup {ReplyFormProps(p.id, c) : c \in CommentsOf(s, p.id)}
        : p \in s.posts}

\* The props of every NewCommentForm a replica can have open: PostDetail's own
\* (no parent) and the reply form of each root comment of the post shown.
CommentForms(s) ==
    UNION {
        {[postId |-> p.id, parentCommentId |-> Absent]}
        \cup {ReplyFormProps(p.id, c) :
                c \in UNION {Range(topLevelComments(list)) :
                               list \in Orderings(CommentsOf(s, p.id))}}
        : p \in s.posts}

\* The VoteButtons a replica shows to user u and the call each arrow makes:
\* PostCard and PostDetail for every post, CommentThread for every comment shown.
VoteCall(r, targetId, u, ty, targetType, votes) ==
    [replica |-> r, targetId |-> targetId, userId |-> u, voteType |-> ty,
     targetType |-> targetType, existingVote |-> getUserVote(votes, u)]

TargetCalls(r, targetId, targetType, votes) ==
    {VoteCall(r, targetId, u, ty, targetType, list) :
        u \in Users, ty \in VoteTypes, list \in Orderings(votes)}

VoteCalls(r) ==
    LET s == View(r)
    IN  UNION {TargetCalls(r, p.id, "post", PostVotes(s, p.id)) : p \in s.posts}
        \cup
        UNION {
            UNION {TargetCalls(r, c.id, "comment", CommentVotes(s, c.id)) :
                     c \in ShownComments(s, p.id)}
            : p \in s.posts}

\* ----------------------------------------------------------------- actions

\* NewPostForm.handleSubmit
NewPost(r) ==
    /\ IdsLeft
    /\ Len(pending[r]) < MaxPending
    /\ Transact(r, createPost)
    /\ nid' = [nid EXCEPT !.posts = @ + 1]
    /\ UNCHANGED <<server, lastCall, trace, auto, pin, pout, running, username>>

\* NewCommentForm.handleSubmit
NewComment(r) ==
    /\ IdsLeft
    /\ Len(pending[r]) < MaxPending
    /\ \E form \in CommentForms(View(r)) :
          Transact(r, createComment(form.postId, form.parentCommentId))
    /\ nid' = [nid EXCEPT !.comments = @ + 1]
    /\ UNCHANGED <<server, lastCall, trace, auto, pin, pout, running, username>>

\* One handleVote call: its batch goes to db.transact on the caller's replica.
Cast(call) ==
    /\ Len(pending[call.replica]) < MaxPending
    /\ call.existingVote.id = Absent => IdsLeft
    /\ Transact(call.replica,
                handleVote(call.targetId, call.userId, call.voteType,
                           call.targetType, call.existingVote))
    /\ nid' = IF call.existingVote.id = Absent
              THEN [nid EXCEPT !.votes = @ + 1] ELSE nid
    /\ UNCHANGED <<server, pin, pout, running, username>>

\* A click on an arrow of some VoteButtons
VoteClick(r) ==
    /\ \E call \in VoteCalls(r) : Cast(call)
    /\ UNCHANGED <<lastCall, trace, auto>>

\* The same click, the vote automaton of its (user, target) pair following it.
VoteClickTracked(r) ==
    /\ \E call \in VoteCalls(r) :
          /\ Cast(call)
          /\ auto' = [auto EXCEPT ![<<call.userId, call.targetId>>] =
                                    Transition(@, call.voteType)]
    /\ UNCHANGED <<lastCall, trace>>

\* The same click, the calls made so far being kept.
VoteClickTraced(r) ==
    /\ Len(trace) < MaxTrace
    /\ \E call \in VoteCalls(r) : Cast(call) /\ trace' = Append(trace, call)
    /\ UNCHANGED <<lastCall, auto>>

\* The same click, its arguments being kept for a replay.
VoteClickRecorded(r) ==
    /\ \E call \in VoteCalls(r) : Cast(call) /\ lastCall' = call
    /\ UNCHANGED <<trace, auto>>

\* The latest handleVote call made again with the arguments it had: the
\* existingVote it observed then, no query result read in between.
Replay ==
    /\ lastCall # NoCall
    /\ Cast(lastCall)
    /\ UNCHANGED <<lastCall, trace, auto>>

\* The shared store applies a batch that has arrived and gives every post it
\* did not hold before its serverCreatedAt: posts are stamped in the order in
\* which they arrive.
ServerApply(s, tx) ==
    LET applied == ApplyTx(s, tx)
    IN  [applied EXCEPT !.posts =
            {IF post.serverCreatedAt = NoTime
             THEN [post EXCEPT !.serverCreatedAt = Cardinality(s.posts) + 1]
             ELSE post : post \in @}]

\* The transport delivers replica r's oldest pending batch to the shared store.
Commit(r) ==
    /\ pending[r] # <<>>
    /\ server' = ServerApply(server, Head(pending[r]))
    /\ pending' = [pending EXCEPT ![r] = Tail(@)]
    /\ UNCHANGED <<nid, lastCall, trace, auto, pin, pout, running, username>>

\* ---------------------------------------------------- actions, array variant

\* The array variant may still call id(): it makes MaxItems posts and comments
\* at most
ItemsLeft == nid.posts + nid.comments < MaxItems

\* NewPostForm.handleSubmit of the array variant
SubmitPost(r) ==
    /\ ItemsLeft
    /\ Len(pending[r]) < MaxPending
    /\ Transact(r, NewPostForm_handleSubmit)
    /\ nid' = [nid EXCEPT !.posts = @ + 1]
    /\ UNCHANGED <<server, lastCall, trace, auto, pin, pout, running, username>>

\* NewCommentForm.handleSubmit of the array variant
SubmitComment(r) ==
    /\ ItemsLeft
    /\ Len(pending[r]) < MaxPending
    /\ \E form \in CommentForms(View(r)) :
          Transact(r, NewCommentForm_handleSubmit(form.postId, form.parentCommentId))
    /\ nid' = [nid EXCEPT !.comments = @ + 1]
    /\ UNCHANGED <<server, lastCall, trace, auto, pin, pout, running, username>>

\* The VoteButtons of the array variant: one for every post and one for every
\* comment shown; onVote names the item and the current user.
ArrayVoteButtons(s) ==
    {[etype |-> "posts", id |-> p.id] : p \in s.posts}
    \cup UNION {{[etype |-> "comments", id |-> c.id] : c \in ShownComments(s, p.id)} :
                 p \in s.posts}

\* A handler that has been called and awaits its queryOnce, with what the
\* query read for it.
Handler(r, button, userId, type) ==
    [replica |-> r, etype |-> button.etype, id |-> button.id, userId |-> userId,
     type |-> type, item |-> queryOnce(View(r), button.etype, button.id)]

\* The batch a handler hands to db.transact once its await is over
HandlerTx(h) ==
    IF h.etype = "posts"
    THEN handlePostVote(h.item, h.id, h.userId, h.type)
    ELSE handleCommentVote(h.item, h.id, h.userId, h.type)

\* The arrows a replica shows and the handler each starts for user u
Clicks(r, u) ==
    {Handler(r, button, u, type) :
        button \in ArrayVoteButtons(View(r)), type \in VoteTypes}

\* A click on an arrow: handlePostVote or handleCommentVote runs up to its
\* await and stays there.
VoteStart(r) ==
    /\ Len(running) < MaxRunning
    /\ \E u \in Users : \E h \in Clicks(r, u) : running' = Append(running, h)
    /\ UNCHANGED <<server, pending, nid, lastCall, trace, auto, pin, pout, username>>

\* A click whose handler is resumed before anything else happens: it runs from
\* its call to its end, other handlers still awaiting.
VoteAtOnce(r) ==
    /\ Len(pending[r]) < MaxPending
    /\ \E u \in Users : \E h \in Clicks(r, u) :
          IF HandlerTx(h) = <<>> THEN UNCHANGED pending ELSE Transact(r, HandlerTx(h))
    /\ UNCHANGED <<server, nid, lastCall, trace, auto, pin, pout, running, username>>

\* The i-th running handler resumes after its await and runs to its end.
VoteFinish(i) ==
    /\ i \in DOMAIN running
    /\ LET h == running[i]
       IN  /\ Len(pending[h.replica]) < MaxPending
           /\ IF HandlerTx(h) = <<>>
              THEN UNCHANGED pending
              ELSE Transact(h.replica, HandlerTx(h))
    /\ running' = [j \in 1..(Len(running) - 1) |->
                     IF j < i THEN running[j] ELSE running[j + 1]]
    /\ UNCHANGED <<server, nid, lastCall, trace, auto, pin, pout, username>>

\* What a click is remembered by: the item, the user and the arrow
ClickOf(h) == [etype |-> h.etype, id |-> h.id, userId |-> h.userId, type |-> h.type]

\* The same clicks, each being kept in trace in the order they are made.
VoteStartTraced(r) ==
    /\ Len(trace) < MaxTrace
    /\ Len(running) < MaxRunning
    /\ \E u \in Users : \E h \in Clicks(r, u) :
          /\ running' = Append(running, h)
          /\ trace' = Append(trace, ClickOf(h))
    /\ UNCHANGED <<server, pending, nid, lastCall, auto, pin, pout, username>>

VoteAtOnceTraced(r) ==
    /\ Len(trace) < MaxTrace
    /\ Len(pending[r]) < MaxPending
    /\ \E u \in Users : \E h \in Clicks(r, u) :
          /\ IF HandlerTx(h) = <<>> THEN UNCHANGED pending ELSE Transact(r, HandlerTx(h))
          /\ trace' = Append(trace, ClickOf(h))
    /\ UNCHANGED <<server, nid, lastCall, auto, pin, pout, running, username>>

\* -------------------------------------------------- both variants together

\* The votes the entity variant reads for an item
EntityVotes(s, button) ==
    IF button.etype = "posts" THEN PostVotes(s, button.id) ELSE CommentVotes(s, button.id)

\* One cast (user, target, vote type) made in both variants on one store, the
\* entity variant keeping its votes as entities linked to the target and the
\* array variant its arrays on the target: handleVote with the existingVote
\* getUserVote returns, then handlePostVote or handleCommentVote run at once.
CastInBoth(r) ==
    /\ pending[r] = <<>>
    /\ \E button \in ArrayVoteButtons(View(r)), u \in Users, type \in VoteTypes :
       \E votes \in Orderings(EntityVotes(View(r), button)) :
          LET existingVote == getUserVote(votes, u)
              targetType == IF button.etype = "posts" THEN "post" ELSE "comment"
          IN  /\ existingVote.id = Absent => IdsLeft
              /\ pending' = [pending EXCEPT ![r] =
                    << handleVote(button.id, u, type, targetType, existingVote),
                       HandlerTx(Handler(r, button, u, type)) >>]
              /\ nid' = IF existingVote.id = Absent
                        THEN [nid EXCEPT !.votes = @ + 1] ELSE nid
    /\ UNCHANGED <<server, lastCall, trace, auto, pin, pout, running, username>>

\* ------------------------------------------------------------ the identity

\* db.useLocalId('guest'): the id kept on the device of replica r, as its first
\* eight characters and the rest
useLocalId(r) == IF r = "r1" THEN <<"a1", "r1-rest">> ELSE <<"u1", "r2-rest">>

\* localId.slice(0, 8)
slice8(localId) == localId[1]

\* const currentUsername = username || localId?.slice(0, 8) || 'anon'
currentUsername(r) ==
    IF username[r] # "" THEN username[r]
    ELSE IF useLocalId(r) # <<>> THEN slice8(useLocalId(r))
    ELSE "anon"

\* The username field of the header: onChange sets the text typed.
SetUsername(r) ==
    /\ \E text \in Users \cup {""} :
          /\ text # username[r]
          /\ username' = [username EXCEPT ![r] = text]
    /\ UNCHANGED <<server, pending, nid, lastCall, trace, auto, pin, pout, running>>

\* A click on an arrow by the client of replica r: VoteButtons are handed
\* currentUser = currentUsername.  The calls made are kept in trace.
VoteClickAsCurrent(r) ==
    /\ Len(trace) < MaxTrace
    /\ \E call \in {c \in VoteCalls(r) : c.userId = currentUsername(r)} :
          Cast(call) /\ trace' = Append(trace, call)
    /\ UNCHANGED <<lastCall, auto, running, username>>

\* ------------------------------------------- the operations called directly

\* The ids a caller may name: those of the entities its replica sees, and one
\* that names nothing.
IdsOf(ents) == {e.id : e \in ents}
PostIdArgs(s) == IdsOf(s.posts) \cup {MissingId}
CommentIdArgs(s) == IdsOf(s.comments) \cup {MissingId}

\* handleVote called on any post or comment id, with the vote of the user the
\* caller's replica holds for that id, if any
DirectVote(r) ==
    /\ Len(pending[r]) < MaxPending
    /\ \E targetType \in {"post", "comment"}, u \in Users, ty \in VoteTypes :
       \E targetId \in IF targetType = "post"
                        THEN PostIdArgs(View(r)) ELSE CommentIdArgs(View(r)) :
       \E votes \in Orderings(IF targetType = "post"
                               THEN PostVotes(View(r), targetId)
                               ELSE CommentVotes(View(r), targetId)) :
          LET existingVote == getUserVote(votes, u)
          IN  /\ existingVote.id = Absent => IdsLeft
              /\ Transact(r, handleVote(targetId, u, ty, targetType, existingVote))
              /\ nid' = IF existingVote.id = Absent
                        THEN [nid EXCEPT !.votes = @ + 1] ELSE nid
              /\ pin' = [kind |-> "handleVote", replica |-> r, ids |-> {targetId}]
    /\ pout' = Returned
    /\ UNCHANGED <<server, lastCall, trace, auto, running, username>>

\* createComment called with any post id and any parent comment id
DirectComment(r) ==
    /\ IdsLeft
    /\ Len(pending[r]) < MaxPending
    /\ \E postId \in PostIdArgs(View(r)),
          parentCommentId \in CommentIdArgs(View(r)) \cup {Absent} :
          /\ Transact(r, createComment(postId, parentCommentId))
          /\ pin' = [kind |-> "createComment", replica |-> r,
                     ids |-> {postId, parentCommentId} \ {Absent}]
    /\ nid' = [nid EXCEPT !.comments = @ + 1]
    /\ pout' = Returned
    /\ UNCHANGED <<server, lastCall, trace, auto, running, username>>

\* handlePostVote called with an id that names no post (the posts it is called
\* on through VoteButtons are those of VoteAtOnce) and run to its end
DirectPostVote(r) ==
    /\ Len(pending[r]) < MaxPending
    /\ \E postId \in PostIdArgs(View(r)) \ IdsOf(View(r).posts),
          u \in Users, type \in VoteTypes :
          LET tx == handlePostVote(queryOnce(View(r), "posts", postId), postId, u, type)
          IN  /\ IF tx = <<>> THEN UNCHANGED pending ELSE Transact(r, tx)
              /\ pin' = [kind |-> "handlePostVote", replica |-> r, ids |-> {postId}]
    /\ pout' = Returned
    /\ UNCHANGED <<server, nid, lastCall, trace, auto, running, username>>

\* --------------------------------------------------------- specifications

\* Every client, every operation.
Next ==
    \/ \E r \in Replicas : NewPost(r)
    \/ \E r \in Replicas : NewComment(r)
    \/ \E r \in Replicas : VoteClick(r)
    \/ \E r \in Replicas : Commit(r)

Spec == Init /\ [][Next]_vars

\* Posts and comments only, every client.
NextComments ==
    \/ \E r \in Replicas : NewPost(r)
    \/ \E r \in Replicas : NewComment(r)
    \/ \E r \in Replicas : Commit(r)

SpecComments == Init /\ [][NextComments]_vars

\* One client on its own, the vote automaton following its clicks.
NextSingle ==
    \/ NewPost("r1")
    \/ NewComment("r1")
    \/ VoteClickTracked("r1")
    \/ Commit("r1")

SpecSingle == Init /\ [][NextSingle]_vars

\* One client on its own voting on posts, its handleVote calls kept in trace.
NextScenario ==
    \/ NewPost("r1")
    \/ VoteClickTraced("r1")
    \/ Commit("r1")

SpecScenario == Init /\ [][NextScenario]_vars

\* One client whose latest handleVote call may be made again.
NextRetry ==
    \/ NewPost("r1")
    \/ VoteClickRecorded("r1")
    \/ Replay
    \/ Commit("r1")

SpecRetry == Init /\ [][NextRetry]_vars

\* The array variant on one client, its handlers overlapping.
NextArray ==
    \/ SubmitPost("r1")
    \/ SubmitComment("r1")
    \/ VoteStart("r1")
    \/ VoteAtOnce("r1")
    \/ \E i \in 1..MaxRunning : VoteFinish(i)
    \/ Commit("r1")

SpecArray == Init /\ [][NextArray]_vars

\* The array variant on one client, its handlers overlapping, the clicks kept.
NextArrayClicks ==
    \/ SubmitPost("r1")
    \/ SubmitComment("r1")
    \/ VoteStartTraced("r1")
    \/ VoteAtOnceTraced("r1")
    \/ \E i \in 1..MaxRunning : VoteFinish(i)
    \/ Commit("r1")

SpecArrayClicks == Init /\ [][NextArrayClicks]_vars

\* The array variant on one client, its handlers running one at a time.
NextArraySerial ==
    \/ SubmitPost("r1")
    \/ SubmitComment("r1")
    \/ VoteAtOnce("r1")
    \/ Commit("r1")

SpecArraySerial == Init /\ [][NextArraySerial]_vars

\* One client on which every cast is made in both variants, one at a time.
NextBoth ==
    \/ SubmitPost("r1")
    \/ SubmitComment("r1")
    \/ CastInBoth("r1")
    \/ Commit("r1")

SpecBoth == Init /\ [][NextBoth]_vars

\* One client's session: it posts, votes under its current name and may type
\* in the username field.
NextSession ==
    \/ NewPost("r1")
    \/ NewComment("r1")
    \/ SetUsername("r1")
    \/ VoteClickAsCurrent("r1")
    \/ Commit("r1")

SpecSession == Init /\ [][NextSession]_vars

\* One client whose operations are called with ids of the caller's choosing.
NextDirect ==
    \/ NewPost("r1")
    \/ DirectComment("r1")
    \/ DirectVote("r1")
    \/ DirectPostVote("r1")
    \/ Commit("r1")

SpecDirect == Init /\ [][NextDirect]_vars

\* ------------------------------------------------- the helpers on their own

\* The inputs the helpers are tried on: every list of up to MaxLen votes of one
\* post (several may be one user's), every pair of upvotes and downvotes
\* arrays, every list of up to MaxLen comments of one post with any parent
\* ids (other comments of the list, the comment itself, an id of no comment),
\* the i-th comment created having timestamp i.  The nested comments query
\* declares no order: lists shorter than MaxLen are delivered in any order,
\* those of MaxLen comments in the order of creation.
SeqsUpTo(S, n) == UNION {[1..k -> S] : k \in 0..n}

VoteLists ==
    {[i \in DOMAIN f |->
        [BlankVote EXCEPT !.id = VotePool[i], !.userId = f[i][1],
                          !.voteType = f[i][2], !.post = PostPool[1]]] :
        f \in SeqsUpTo(Users \X VoteTypes, MaxLen)}

ArrayAttrs == {Undefined} \cup {ArrayOf(a) : a \in SeqsUpTo(Users, MaxLen - 1)}

Items == [upvotes : ArrayAttrs, downvotes : ArrayAttrs]

DeliveryOrders(n) ==
    IF n < MaxLen THEN Orderings(1..n) ELSE {[i \in 1..n |-> i]}

CommentLists ==
    UNION {
        {[i \in 1..n |->
            [BlankComment EXCEPT !.id = CommentPool[o[i]], !.timestamp = o[i],
                                 !.parentCommentId = f[o[i]],
                                 !.post = PostPool[1]]] :
            f \in [1..n -> {Absent, MissingId} \cup {CommentPool[j] : j \in 1..n}],
            o \in DeliveryOrders(n)}
        : n \in 0..MaxLen}

QueryResults ==
    {Loading, Failed("message"), Data(<<>>),
     Data(<<[BlankPost EXCEPT !.id = PostPool[1]]>>)}

InitPure ==
    /\ server = EmptyStore
    /\ pending = [r \in Replicas |-> <<>>]
    /\ nid = [posts |-> 0, comments |-> 0, votes |-> 0]
    /\ lastCall = NoCall
    /\ trace = <<>>
    /\ auto = [k \in Users \X TargetIds |-> "no-vote"]
    /\ pin \in {[kind |-> "votes", votes |-> l] : l \in VoteLists}
              \cup {[kind |-> "item", item |-> i] : i \in Items}
              \cup {[kind |-> "comments", comments |-> l] : l \in CommentLists}
              \cup {[kind |-> "query", view |-> v, query |-> q] :
                       v \in {"App", "PostDetail"}, q \in QueryResults}
              \cup {[kind |-> "transact", op |-> o, failed |-> f] :
                       o \in Operations, f \in BOOLEAN}
    /\ pout = NoOutput
    /\ running = <<>>
    /\ username = [r \in Replicas |-> ""]

Return(out) ==
    /\ pout = NoOutput
    /\ pout' = out
    /\ UNCHANGED <<server, pending, nid, lastCall, trace, auto, pin, running, username>>

\* PostCard and PostDetail compute the score of the votes listed.
ShowScore ==
    /\ pin.kind = "votes"
    /\ Return([kind |-> "score", score |-> getVoteCount(pin.votes)])

\* The array variant computes the score of an item.
ShowItemScore ==
    /\ pin.kind = "item"
    /\ Return([kind |-> "score", score |-> getVotes(pin.item)])

\* PostDetail lays out the comments of a post.
ShowComments ==
    /\ pin.kind = "comments"
    /\ Return([kind |-> "forest",
               roots |-> topLevelComments(pin.comments),
               shown |-> PostDetail(pin.comments)])

\* App renders what its query handed it.
RenderApp ==
    /\ pin.kind = "query" /\ pin.view = "App"
    /\ Return([kind |-> "view", view |-> App(pin.query)])

\* PostDetail renders what its query handed it.
RenderPostDetail ==
    /\ pin.kind = "query" /\ pin.view = "PostDetail"
    /\ Return([kind |-> "view", view |-> PostDetailOf(pin.query)])

\* An operation ends, its db.transact having failed or not.
EndOperation ==
    /\ pin.kind = "transact"
    /\ Return(ReportOf(pin.op, pin.failed))

NextPure ==
    \/ ShowScore
    \/ ShowItemScore
    \/ ShowComments
    \/ RenderApp
    \/ RenderPostDetail
    \/ EndOperation

SpecPure == InitPure /\ [][NextPure]_vars

\* ------------------------------------------------------------------ claims

\* The stores a reader can see: the shared one and every replica's view.
Stores == {server} \cup {View(r) : r \in Replicas}

\* The votes of user u on target t held by store s
VotesFor(s, u, t) ==
    {v \in s.votes : v.userId = u /\ (v.post = t \/ v.comment = t)}

\* The ids reached from the comments named ids by following parentCommentId
\* k times within the comments cs
RECURSIVE Climb(_, _, _)
Climb(cs, ids, k) ==
    IF k = 0 THEN ids
    ELSE Climb(cs, {c.parentCommentId : c \in {d \in cs : d.id \in ids}}, k - 1)

OnCycle(cs, c) == \E k \in 1..Cardinality(cs) : c.id \in Climb(cs, {c.id}, k)
NoCycle(cs) == \A c \in cs : ~OnCycle(cs, c)

\* How often comment c occurs in the list shown
Occurrences(shown, c) == Cardinality({i \in DOMAIN shown : shown[i] = c})

\* C1: once every batch has reached the shared store, no user holds two vote
\* entities on one target; in particular two replicas that both cast an
\* up-vote of u1 on p1, neither having seen a vote of u1 there, leave one.
C1_OneVotePerUserAndTarget ==
    Converged =>
        \A u \in Users, t \in TargetIds : Cardinality(VotesFor(server, u, t)) <= 1

\* C2: on one replica whose every handleVote call is given the vote
\* getUserVote finds in the state the previous call left, the store holds at
\* most one vote per (user, target), present and typed as the three-state
\* automaton run over the same casts says.
C2_LedgerFollowsAutomaton ==
    \A u \in Users, t \in TargetIds :
        LET vs == VotesFor(View("r1"), u, t)
            state == auto[<<u, t>>]
        IN  /\ Cardinality(vs) <= 1
            /\ state = "no-vote" <=> vs = {}
            /\ state = "upvoted" => \A v \in vs : v.voteType = "up"
            /\ state = "downvoted" => \A v \in vs : v.voteType = "down"

\* C2 witness: a comment and a post have both been voted on, one pair of the
\* automaton standing at downvoted and another at upvoted.
C2_Witness ==
    /\ \E u \in Users, t \in Range(CommentPool) : auto[<<u, t>>] = "downvoted"
    /\ \E u \in Users, t \in Range(PostPool) : auto[<<u, t>>] = "upvoted"

\* C3: a handleVote call made again with the same arguments, the same observed
\* existingVote included, leaves the caller's store as the first call left it.
C3_ReplayChangesNothing ==
    [][Replay => View(lastCall.replica)' = View(lastCall.replica)]_vars

\* The casts of the trace made on post p1, oldest first
CastsOnP1 == SelectSeq(trace, LAMBDA c : c.targetId = PostPool[1])
TypesOnP1 == [i \in DOMAIN CastsOnP1 |-> CastsOnP1[i].voteType]
OnlyA1OnP1 == \A i \in DOMAIN CastsOnP1 : CastsOnP1[i].userId = "a1"

\* C4: for post p1 voted on by a1 alone, whatever order its votes are listed
\* in: score 0 and no user vote after creation; 1 and up after an up-vote; 0
\* and none after a second up-vote; -1 and down after a following down-vote.
C4_ToggleSequence ==
    (Has(View("r1").posts, PostPool[1]) /\ OnlyA1OnP1) =>
        \A votes \in Orderings(PostVotes(View("r1"), PostPool[1])) :
            LET score == getVoteCount(votes)
                userVote == getUserVote(votes, "a1").voteType
            IN  /\ TypesOnP1 = <<>> => score = 0 /\ userVote = Absent
                /\ TypesOnP1 = <<"up">> => score = 1 /\ userVote = "up"
                /\ TypesOnP1 = <<"up", "up">> => score = 0 /\ userVote = Absent
                /\ TypesOnP1 = <<"up", "up", "down">> =>
                       score = -1 /\ userVote = "down"

\* C4 witness: a1 alone has cast up, up, down on p1.
C4_Witness == OnlyA1OnP1 /\ TypesOnP1 = <<"up", "up", "down">>

\* C5: the score of a list of votes is the number of its up votes minus the
\* number of its down votes, several votes of one user counting each; the score
\* of an item of the array variant is the length of upvotes minus the length
\* of downvotes.
C5_ScoreIsUpsMinusDowns ==
    /\ (pin.kind = "votes" /\ pout.kind = "score") =>
           pout.score =
               Cardinality({i \in DOMAIN pin.votes : pin.votes[i].voteType = "up"})
               - Cardinality({i \in DOMAIN pin.votes : pin.votes[i].voteType = "down"})
    /\ (pin.kind = "item" /\ pout.kind = "score") =>
           pout.score =
               (IF pin.item.upvotes.defined THEN Len(pin.item.upvotes.items) ELSE 0)
               - (IF pin.item.downvotes.defined THEN Len(pin.item.downvotes.items) ELSE 0)

\* C5 witness: the score of a list holding two votes of one user has been
\* computed.
C5_Witness ==
    /\ pin.kind = "votes"
    /\ pout.kind = "score"
    /\ \E i, j \in DOMAIN pin.votes : i # j /\ pin.votes[i].userId = pin.votes[j].userId

\* The parent ids of the list all name comments of the list, and no chain of
\* them returns to its start.
AcyclicWithin(comments) ==
    /\ \A i \in DOMAIN comments :
          comments[i].parentCommentId # Absent =>
              \E j \in DOMAIN comments : comments[j].id = comments[i].parentCommentId
    /\ NoCycle(Range(comments))

\* C6: for any acyclic parent assignment over the comments of a post, at any
\* depth, every comment occurs exactly once in what PostDetail and
\* CommentThread lay out.
C6_EveryCommentShownOnce ==
    (pin.kind = "comments" /\ pout.kind = "forest" /\ AcyclicWithin(pin.comments)) =>
        \A i \in DOMAIN pin.comments : Occurrences(pout.shown, pin.comments[i]) = 1

\* C1 (no parent), C2 (parent C1), C3 (parent missing-id) on post P
OrphanScenario ==
    << [BlankComment EXCEPT !.id = CommentPool[1], !.timestamp = 1,
                            !.post = PostPool[1]],
       [BlankComment EXCEPT !.id = CommentPool[2], !.timestamp = 2,
                            !.post = PostPool[1],
                            !.parentCommentId = CommentPool[1]],
       [BlankComment EXCEPT !.id = CommentPool[3], !.timestamp = 3,
                            !.post = PostPool[1],
                            !.parentCommentId = MissingId] >>

\* C7: a comment whose parentCommentId names no comment of the post is shown as
\* a root: with C1, C2 (parent C1), C3 (parent missing-id) the roots are C1 and
\* C3 and the replies of C1 are C2.
C7_OrphanIsRoot ==
    (pin.kind = "comments" /\ pin.comments = OrphanScenario /\ pout.kind = "forest") =>
        /\ Range(pout.roots) = {OrphanScenario[1], OrphanScenario[3]}
        /\ Range(replies(OrphanScenario[1], pin.comments)) = {OrphanScenario[2]}

\* C8: no store a reader can see holds a comment that is its own parent or
\* lies on a cycle of parentCommentId references.
C8_NoParentCycle == \A s \in Stores : NoCycle(s.comments)

\* C8 witness: a reply whose parent is itself a stored comment has reached the
\* shared store.
C8_Witness ==
    \E c \in server.comments : Has(server.comments, c.parentCommentId)

\* C9: in every store a reader can see, a comment with a parentCommentId is
\* linked to the post its parent is linked to.
C9_ReplyOnParentsPost ==
    \A s \in Stores : \A c, d \in s.comments :
        d.id = c.parentCommentId => c.post = d.post

\* C9 witness: two posts exist and a replica sees a reply together with its
\* parent.
C9_Witness ==
    \E r \in Replicas :
        /\ Cardinality(View(r).posts) = 2
        /\ \E c, d \in View(r).comments : d.id = c.parentCommentId

\* C10: in every store a reader can see, every vote has exactly one target
\* link, and the link names a post or a comment of that store.
C10_VoteHasOneLiveTarget ==
    \A s \in Stores : \A v \in s.votes :
        /\ (v.post = Absent) # (v.comment = Absent)
        /\ v.post # Absent => Has(s.posts, v.post)
        /\ v.comment # Absent => Has(s.comments, v.comment)

\* C11: no store a reader can see, the shared one or a replica's view, holds a
\* comment without its post link: the comment and its link arrive together.
C11_CommentNeverWithoutPost ==
    \A s \in Stores : \A c \in s.comments : c.post # Absent /\ Has(s.posts, c.post)

\* C11 witness: a replica sees a comment of its own that has not reached the
\* shared store yet, beside one that has.
C11_Witness ==
    \E r \in Replicas :
        /\ server.comments # {}
        /\ View(r).comments # server.comments

\* The posts and comments of store s, whole entities
PostsAndComments(s) == s.posts \cup s.comments

NamesAbsentTarget(call) ==
    \E i \in call.ids :
        ~Has(View(call.replica).posts, i) /\ ~Has(View(call.replica).comments, i)

\* C13: a call of handleVote, createComment or handlePostVote that names a post
\* or comment id absent from the caller's store leaves that store as it was
\* and hands a not-found error back.
C13_AbsentTargetRejected ==
    [][((DirectVote("r1") \/ DirectComment("r1") \/ DirectPostVote("r1"))
          /\ NamesAbsentTarget(pin'))
        => (View("r1")' = View("r1") /\ pout'.error = "not-found")]_vars

\* C14: a view whose query is in its error state shows the error, and an
\* operation whose db.transact failed hands the failure back to its caller.
C14_FailuresReported ==
    /\ (pin.kind = "query" /\ pout.kind = "view" /\ pin.query.error # Absent) =>
           pout.view.shows = "error"
    /\ (pin.kind = "transact" /\ pout.kind = "returned" /\ pin.failed) =>
           pout.error # Absent

\* The call hands handleVote a vote of the other direction.
SwitchesDirection(call) ==
    call.existingVote.id # Absent /\ call.existingVote.voteType # call.voteType

\* C15: a handleVote call given an existingVote of the opposite voteType changes
\* nothing in the caller's store but that vote's voteType: the vote keeps its
\* id, its userId and its target link, the votes are as many as before, and
\* every other vote, every post and every comment is as it was.
C15_SwitchChangesVoteTypeOnly ==
    [][((VoteClickRecorded("r1") \/ Replay) /\ SwitchesDirection(lastCall'))
        => LET before == View("r1")
               after == View("r1")'
               voteId == lastCall'.existingVote.id
           IN  /\ after.posts = before.posts
               /\ after.comments = before.comments
               /\ Has(before.votes, voteId)
               /\ after.votes =
                      (before.votes \ {Get(before.votes, voteId)})
                      \cup {[Get(before.votes, voteId) EXCEPT
                                !.voteType = lastCall'.voteType]}]_vars

\* C15 witness: a vote that was up has been switched to down, and the store
\* holds another vote beside it.
C15_Witness ==
    /\ lastCall # NoCall
    /\ SwitchesDirection(lastCall)
    /\ \E v, w \in View("r1").votes :
          /\ v.id = lastCall.existingVote.id
          /\ v.voteType = lastCall.voteType
          /\ w.id # v.id

\* User v's vote on an item as its arrays tell it: in upvotes, in downvotes
Membership(item, v) ==
    <<includes(OrEmpty(item.upvotes), v), includes(OrEmpty(item.downvotes), v)>>

\* The users whose membership in the arrays of an item of store s differs in
\* store t
ChangedVoters(s, t, etype, eid) ==
    {v \in Users :
        Membership(queryOnce(s, etype, eid), v) # Membership(queryOnce(t, etype, eid), v)}

\* C16: array variant: the write a vote handler of user u makes changes no
\* other user's membership in upvotes or downvotes of the item, compared with
\* the store just before the write, whether the handler ran at once or another
\* handler ran between its queryOnce and its transact.
C16_OtherVotersUntouched ==
    [][/\ \A i \in DOMAIN running : \A h \in {running[i]} :
             VoteFinish(i) =>
                 \A s \in {View(h.replica)} :
                     ChangedVoters(s, View(h.replica)', h.etype, h.id)
                         \subseteq {h.userId}
       /\ \A r \in Replicas :
             VoteAtOnce(r) =>
                 \A b \in ArrayVoteButtons(View(r)) :
                     Cardinality(ChangedVoters(View(r), View(r)', b.etype, b.id)) <= 1]_vars

\* C17: array variant: once no handler is left running, n clicks of one arrow
\* by one user on one item, and no other click, leave the user voted in that
\* direction when n is odd and not voted when n is even, also when the
\* handlers of consecutive clicks overlapped.
C17_ClickParity ==
    (/\ running = <<>>
     /\ trace # <<>>
     /\ \A i \in DOMAIN trace : trace[i] = trace[1]) =>
        LET click == trace[1]
            item == queryOnce(View("r1"), click.etype, click.id)
        IN  Membership(item, click.userId) =
                IF Len(trace) % 2 = 0 THEN <<FALSE, FALSE>>
                ELSE <<click.type = "up", click.type = "down">>

\* How often user u occurs in upvotes and downvotes of the item together
TimesListed(item, u) ==
    LET both == OrEmpty(item.upvotes) \o OrEmpty(item.downvotes)
    IN  Cardinality({i \in DOMAIN both : both[i] = u})

\* C18: array variant, handlers one at a time on one replica, items made with
\* empty arrays: no user id occurs twice in upvotes and downvotes of an item
\* taken together.
C18_UserListedOnce ==
    \A s \in Stores : \A item \in PostsAndComments(s) : \A u \in Users :
        TimesListed(item, u) <= 1

\* C18 witness: a post lists one user in upvotes and another in downvotes, and
\* a comment lists a voter too.
C18_Witness ==
    /\ \E p \in View("r1").posts :
          Len(OrEmpty(p.upvotes)) = 1 /\ Len(OrEmpty(p.downvotes)) = 1
    /\ \E c \in View("r1").comments :
          Len(OrEmpty(c.upvotes)) + Len(OrEmpty(c.downvotes)) >= 1

\* C19: in every store a reader can see, a comment made through the forms has
\* no parent or has a root comment of its own post as parent, and so PostDetail
\* and CommentThread show every comment of a post exactly once, whatever order
\* the query lists them in.
C19_DepthOneAndShownOnce ==
    \A s \in Stores : \A p \in s.posts :
        /\ \A c \in CommentsOf(s, p.id) :
              \/ c.parentCommentId = Absent
              \/ \E d \in CommentsOf(s, p.id) :
                    d.id = c.parentCommentId /\ d.parentCommentId = Absent
        /\ \A list \in Orderings(CommentsOf(s, p.id)) :
              \A c \in CommentsOf(s, p.id) : Occurrences(PostDetail(list), c) = 1

\* C19 witness: the shared store holds a post with a root comment and two
\* replies to it.
C19_Witness ==
    \E root, c, d \in server.comments :
        /\ root.parentCommentId = Absent
        /\ c # d
        /\ c.parentCommentId = root.id
        /\ d.parentCommentId = root.id

\* The votes store s holds on target t, whoever cast them
VotesOn(s, t) == {v \in s.votes : v.post = t \/ v.comment = t}

\* C20: within one session every handleVote call of the client carries the same
\* userId, and the client, alone on its store, never holds two votes on one
\* target.
C20_OneIdentityPerSession ==
    /\ \A i, j \in DOMAIN trace : trace[i].userId = trace[j].userId
    /\ \A t \in TargetIds : Cardinality(VotesOn(View("r1"), t)) <= 1

\* The votes store s holds on each post and on each comment, target by target
VoteSetsOf(s) ==
    {PostVotes(s, p.id) : p \in s.posts} \cup {CommentVotes(s, c.id) : c \in s.comments}

\* C21: for the votes any store holds on a target, every two orders in which
\* they may be listed give the same getVoteCount score and, for every user,
\* the same getUserVote result (same vote id, same voteType).
C21_DerivedValuesOrderFree ==
    \A s \in Stores : \A votes \in VoteSetsOf(s) :
        \A l1, l2 \in Orderings(votes) :
            /\ getVoteCount(l1) = getVoteCount(l2)
            /\ \A u \in Users : getUserVote(l1, u) = getUserVote(l2, u)

\* C22: after every cast made in both variants, for every post and comment the
\* replica holds: getVoteCount over the vote entities equals getVotes over the
\* arrays, and for every user the voteType of the vote getUserVote finds (or
\* none) equals what the array variant's getUserVote tells, whatever order the
\* votes are listed in.
C22_VariantsAgree ==
    \A b \in ArrayVoteButtons(View("r1")) :
        LET item == queryOnce(View("r1"), b.etype, b.id)
        IN  \A votes \in Orderings(EntityVotes(View("r1"), b)) :
                /\ getVoteCount(votes) = getVotes(item)
                /\ \A u \in Users :
                      getUserVote(votes, u).voteType = getUserVoteOfItem(item, u)

\* C22 witness: a post stands at score -1 and a comment at score 1 in both
\* variants.
C22_Witness ==
    /\ \E p \in View("r1").posts :
          getVotes(p) = -1 /\ Cardinality(PostVotes(View("r1"), p.id)) = 1
    /\ \E c \in View("r1").comments :
          getVotes(c) = 1 /\ Cardinality(CommentVotes(View("r1"), c.id)) = 1

\* C23.  The post list is ordered by the posts' creation timestamp, newest
\* first, on every replica and for posts created by different clients: in every
\* list a variant's App is handed on a replica that has nothing left to send,
\* no post comes before a post of a later timestamp.
C23_PostsNewestFirst ==
    \A r \in Replicas :
        pending[r] = <<>> =>
            \A l \in PostLists(View(r)) :
                \A i, j \in DOMAIN l : i < j => l[i].timestamp >= l[j].timestamp

\* C24.  Within every sibling group (the roots; the replies of one comment)
\* the comments are shown in ascending order of creation timestamp, in
\* whatever order the flat comment list was delivered.
Ascending(comments) ==
    \A i, j \in DOMAIN comments : i < j => comments[i].timestamp <= comments[j].timestamp

C24_SiblingsOldestFirst ==
    pout.kind = "forest" =>
        /\ Ascending(pout.roots)
        /\ \A c \in Range(pin.comments) : Ascending(replies(c, pin.comments))

====
